---- MODULE Spec2Model ----
(***************************************************************************)
(* The Plover HID machine plugin (plover_machine_hid.py): the report       *)
(* decoder HidMachine._parse and the chord state machine of                *)
(* HidMachine.run.                                                         *)
(*                                                                         *)
(* A key bitmap is a Python int below 2^64.  It is represented here by the *)
(* set of its set bit positions (position 0 is the least significant bit), *)
(* so that  a & ~b  is  a \ b,  a | b  is  a \cup b  and  a == 0  is       *)
(* a = {}.  Layout index i of the key chart is bit position 63 - i.        *)
(***************************************************************************)
EXTENDS Integers, Sequences, FiniteSets, TLC

VARIABLES
    params,         \* self._params, the options of the session
    keystate,       \* run(): keystate
    current,        \* run(): current
    last_sent,      \* run(): last_sent
    repeat_timer,   \* run(): repeat_timer
    sent_first_up,  \* run(): sent_first_up
    report,         \* run(): report, what the last read returned
    parsed,         \* what _parse did with the last non-empty report
    pc,             \* where the worker is: "check", "read" or "done" in run,
                    \* "parse" or "parsed" around a call of _parse alone
    stopped_in,     \* where the worker was when stop_capture set the flag
                    \* ("" while it has not been called)
    finished,       \* self.finished, the stop flag
    errors,         \* number of calls of self._error()
    out,            \* the bitmaps passed to send() by the last iteration
    keys_arg,       \* send(): the key lists passed to keymap.keys_to_actions
    translated,     \* send(): what keymap.keys_to_actions returned
    notified,       \* send(): the actions passed to self._notify
    tracked,        \* every read of the session so far returned a valid report,
                    \* and there were at most MaxHist of them
    history,        \* while tracked: the bitmaps of these reports, in order
    emitted,        \* while tracked: the bitmaps passed to send() so far, in order
    idle,           \* timeouts since the last valid report, counted while the
                    \* chord sent last is held down
    down,           \* accumulate policy: the keys of all valid reports since
                    \* the last valid report with bitmap 0
    cleared,        \* first-up policy: a valid report cleared a key of keystate
                    \* since the last valid report that pressed a key
    fired,          \* first-up policy: chords sent by valid reports since the
                    \* last valid report that pressed a key
    repeated,       \* first-up policy: a timeout sent a repeat since the last
                    \* valid report that pressed a key
    repeating,      \* a timeout sent a repeat, and no iteration before the
                    \* current one has read a valid report since
    unsent,         \* first-up policy: the keys that valid reports pressed and
                    \* that were in no chord passed to send() since
    last_emitted    \* the chord of the latest call of send() in the session,
                    \* as a sequence: empty while there was no call

vars == <<params, keystate, current, last_sent, repeat_timer, sent_first_up,
          report, parsed, pc, finished, stopped_in, errors, out, keys_arg,
          translated, notified, tracked, history, emitted, idle, down, cleared, fired,
          repeated, repeating, unsent, last_emitted>>

machine == <<keystate, current, last_sent, repeat_timer, sent_first_up>>

\* what one call of send() does
sink == <<keys_arg, translated, notified>>

-----------------------------------------------------------------------------
(* Program constants *)

N_LEVERS == 64
SIMPLE_REPORT_LEN == N_LEVERS \div 8
REPORT_ID == 80

(* Bounds of the model *)

MaxHist == 4        \* valid reports kept in history before it is dropped
MaxIdle == 5        \* consecutive timeouts explored after a valid report
MaxReportLen == 10  \* longest report given to _parse in SpecParse

-----------------------------------------------------------------------------
(* Python ints as sets of bit positions *)

\* the set bits of one byte
ByteBits(b) == {k \in 0..7 : (b \div (2 ^ k)) % 2 = 1}

\* faulty variant: int.from_bytes(bytes, 'little')
RECURSIVE FromBytesLittle(_)
FromBytesLittle(bytes) ==
    IF bytes = <<>> THEN {}
    ELSE {p + 8 : p \in FromBytesLittle(Tail(bytes))} \cup ByteBits(Head(bytes))

\* int.from_bytes(bytes, 'big'): value = value * 256 + byte, left to right
RECURSIVE FromBytesBig(_)
FromBytesBig(bytes) ==
    IF bytes = <<>> THEN {}
    ELSE LET n == Len(bytes)
             high == FromBytesBig(SubSeq(bytes, 1, n - 1))
         IN  {p + 8 : p \in high} \cup ByteBits(bytes[n])

\* Python slice seq[lo:hi] of a 0-indexed sequence
Slice(seq, lo, hi) ==
    SubSeq(seq, lo + 1, IF hi < Len(seq) THEN hi ELSE Len(seq))

InvalidReport == [raised |-> TRUE, value |-> {}]
Returned(v) == [raised |-> FALSE, value |-> v]

\* faulty variant: the length test is >= instead of >
_parse_length_ge(rep) ==
    IF Len(rep) >= SIMPLE_REPORT_LEN /\ rep[1] = REPORT_ID
    THEN Returned(FromBytesBig(Slice(rep, 1, SIMPLE_REPORT_LEN + 1)))
    ELSE InvalidReport

\* HidMachine._parse
_parse(rep) ==
    IF Len(rep) > SIMPLE_REPORT_LEN /\ rep[1] = REPORT_ID
    THEN Returned(FromBytesBig(Slice(rep, 1, SIMPLE_REPORT_LEN + 1)))
    ELSE InvalidReport

\* send: the key of layout index i is bit position 63 - i of the bitmap
LayoutBit(i) == (N_LEVERS - 1) - i

-----------------------------------------------------------------------------
(* Inputs *)

\* the options a session can run with: get_option_info and the validators
\* of the option widget keep both times in 10..10000
Defaults == <<200, 50>>
Timings == {<<100, 50>>, <<120, 50>>}

Options(f, d, t) ==
    [first_up_chord_send |-> f, double_tap_repeat |-> d,
     repeat_delay_ms |-> t[1], repeat_interval_ms |-> t[2]]

\* without double_tap_repeat the two times are never compared: the defaults
Params ==
    {Options(f, FALSE, Defaults) : f \in BOOLEAN}
    \cup {Options(f, TRUE, t) : f \in BOOLEAN, t \in Timings}

\* first payload bytes of the reports the device sends: keys 0, 1 and 2 of
\* the layout in every combination
Payload1 == {128 * a + 64 * b + 32 * c : a \in {0, 1}, b \in {0, 1}, c \in {0, 1}}

ValidReports == {<<REPORT_ID, b, 0, 0, 0, 0, 0, 0, 0>> : b \in Payload1}

\* a report one byte short, and one with another report id
BadReports == {<<REPORT_ID, 128, 0, 0, 0, 0, 0, 0>>,
               <<1, 128, 0, 0, 0, 0, 0, 0, 0>>}

\* what self._hid.read can return; <<>> is a read that timed out
Reads == ValidReports \cup BadReports \cup {<<>>}

\* _parse of every non-empty read, evaluated once
Parsed == [rep \in Reads \ {<<>>} |-> _parse(rep)]

-----------------------------------------------------------------------------
(* Observation of the session *)

Timeout == [kind |-> "timeout", keys |-> {}]
Invalid == [kind |-> "invalid", keys |-> {}]
Valid(b) == [kind |-> "report", keys |-> b]

Event(rep) ==
    IF rep = <<>> THEN Timeout
    ELSE IF Parsed[rep].raised THEN Invalid
    ELSE Valid(Parsed[rep].value)

\* history and emitted are kept while the session has read nothing but valid
\* reports, at most MaxHist of them, and was not asked to stop; they are
\* dropped afterwards
Record(rep, sends) ==
    IF tracked /\ Event(rep).kind = "report" /\ Len(history) < MaxHist
    THEN /\ tracked' = TRUE
         /\ history' = Append(history, Event(rep).keys)
         /\ emitted' = emitted \o sends
    ELSE /\ tracked' = FALSE
         /\ history' = <<>>
         /\ emitted' = <<>>

-----------------------------------------------------------------------------
(* HidMachine.run *)

Init ==
    /\ params \in Params
    /\ keystate = {}
    /\ current = {}
    /\ last_sent = {}
    /\ repeat_timer = 0
    /\ sent_first_up = FALSE
    /\ report = <<>>
    /\ parsed = InvalidReport
    /\ pc = "check"
    /\ finished = FALSE
    /\ stopped_in = ""
    /\ errors = 0
    /\ out = <<>>
    /\ keys_arg = <<>>
    /\ translated = <<>>
    /\ notified = <<>>
    /\ tracked = TRUE
    /\ history = <<>>
    /\ emitted = <<>>
    /\ idle = 0
    /\ down = {}
    /\ cleared = FALSE
    /\ fired = 0
    /\ repeated = FALSE
    /\ repeating = FALSE
    /\ unsent = {}
    /\ last_emitted = <<>>

\* faulty variant: the flag is not looked at
CheckFinished_ignores_flag ==
    /\ pc = "check"
    /\ pc' = "read"
    /\ report' = <<>>
    /\ out' = <<>>
    /\ keys_arg' = <<>>
    /\ translated' = <<>>
    /\ notified' = <<>>
    /\ repeating' = IF Event(report).kind = "report" THEN FALSE ELSE repeating
    /\ UNCHANGED <<params, machine, parsed, finished, stopped_in, errors,
                   tracked, history, emitted, idle, down, cleared, fired,
                   repeated, unsent,
                   last_emitted>>

\* while not self.finished.wait(0)
CheckFinished ==
    /\ pc = "check"
    /\ pc' = IF finished THEN "done" ELSE "read"
    /\ report' = <<>>
    /\ out' = <<>>
    /\ keys_arg' = <<>>
    /\ translated' = <<>>
    /\ notified' = <<>>
    /\ repeating' = IF Event(report).kind = "report" THEN FALSE ELSE repeating
    /\ UNCHANGED <<params, machine, parsed, finished, stopped_in, errors,
                   tracked, history, emitted, idle, down, cleared, fired,
                   repeated, unsent,
                   last_emitted>>

\* stop_capture, called by the host while the worker runs
StopCapture ==
    /\ pc \in {"check", "read"}
    /\ ~finished
    /\ finished' = TRUE
    /\ stopped_in' = pc
    /\ tracked' = FALSE
    /\ history' = <<>>
    /\ emitted' = <<>>
    /\ UNCHANGED <<params, machine, report, parsed, pc, errors, out, sink,
                   idle, down, cleared, fired, repeated, repeating, unsent,
                   last_emitted>>

\* faulty variant: the loop goes on after the error was signalled
ReadError_retries ==
    /\ pc = "read"
    /\ errors' = errors + 1
    /\ pc' = "check"
    /\ out' = <<>>
    /\ UNCHANGED <<params, machine, report, parsed, finished, stopped_in, sink,
                   tracked, history, emitted, idle, down, cleared, fired,
                   repeated, repeating, unsent, last_emitted>>

\* self._hid.read raises hid.HIDException
ReadError ==
    /\ pc = "read"
    /\ errors' = errors + 1
    /\ pc' = "done"
    /\ out' = <<>>
    /\ UNCHANGED <<params, machine, report, parsed, finished, stopped_in, sink,
                   tracked, history, emitted, idle, down, cleared, fired,
                   repeated, repeating, unsent, last_emitted>>

STENO_KEY_CHART ==
    <<"S-", "T-", "K-", "P-", "W-", "H-",
      "R-", "A-", "O-", "*", "-E", "-U",
      "-F", "-R", "-P", "-B", "-L", "-G",
      "-T", "-S", "-D", "-Z", "#",
      "X1", "X2", "X3", "X4", "X5", "X6",
      "X7", "X8", "X9", "X10", "X11", "X12",
      "X13", "X14", "X15", "X16", "X17", "X18",
      "X19", "X20", "X21", "X22", "X23", "X24",
      "X25", "X26", "X27", "X28", "X29", "X30",
      "X31", "X32", "X33", "X34", "X35", "X36",
      "X37", "X38", "X39", "X40", "X41">>

\* enumerate(STENO_KEY_CHART): the indices 0, 1, ... in order
Enumerate(chart) == [k \in 1..Len(chart) |-> k - 1]

\* faulty variant: bit i instead of bit 63 - i
SendKeys_low_first(bitmap) ==
    LET picked == SelectSeq(Enumerate(STENO_KEY_CHART), LAMBDA i : i \in bitmap)
    IN  [k \in 1..Len(picked) |-> STENO_KEY_CHART[picked[k] + 1]]

\* send, line 91: [key for i, key in enumerate(STENO_KEY_CHART)
\*                     if keystate >> (63 - i) & 1]
SendKeys(bitmap) ==
    LET picked == SelectSeq(Enumerate(STENO_KEY_CHART),
                            LAMBDA i : LayoutBit(i) \in bitmap)
    IN  [k \in 1..Len(picked) |-> STENO_KEY_CHART[picked[k] + 1]]

\* self.keymap.keys_to_actions, the translator of the host: for a key list
\* it returns actions (here the keys themselves) or nothing; for no keys,
\* nothing
keys_to_actions(keys) == IF keys = <<>> THEN {<<>>} ELSE {<<>>, keys}

\* the bit positions of a bitmap
Positions == 0..(N_LEVERS - 1)

\* bitmaps for send() alone: no bit, any one bit, any two bits, and all bits
\* but one or two
SendInputs ==
    LET few == {{}} \cup {{a, b} : a, b \in Positions}
    IN  few \cup {Positions \ bitmap : bitmap \in few}

\* the bitmaps the reports of ValidReports carry
Chords == {Parsed[rep].value : rep \in ValidReports}

\* the key list send() builds from each bitmap it is called with
KeysOf == [bitmap \in Chords \cup SendInputs |-> SendKeys(bitmap)]

\* faulty variant: self._notify is called whatever the translator returned
send_unconditional(bitmap) ==
    \E steno_actions \in keys_to_actions(KeysOf[bitmap]) :
        /\ keys_arg' = <<KeysOf[bitmap]>>
        /\ translated' = <<steno_actions>>
        /\ notified' = <<steno_actions>>

\* HidMachine.send
send(bitmap) ==
    \E steno_actions \in keys_to_actions(KeysOf[bitmap]) :
        /\ keys_arg' = <<KeysOf[bitmap]>>
        /\ translated' = <<steno_actions>>
        /\ notified' = IF steno_actions # <<>> THEN <<steno_actions>> ELSE <<>>

\* the calls of send() of one iteration: out' holds their arguments
Sends ==
    IF out' = <<>>
    THEN keys_arg' = <<>> /\ translated' = <<>> /\ notified' = <<>>
    ELSE send(out'[1])

\* faulty variant: the double_tap_repeat option is not tested
RepeatCandidate_any_option == current # {} /\ current = last_sent

\* the test of line 112: a repeat is due only for a chord that was sent and
\* is held down again
RepeatCandidate == params.double_tap_repeat /\ current # {} /\ current = last_sent

\* faulty variant: the timer is compared with <= instead of <
OnTimeout_le ==
    /\ IF RepeatCandidate
       THEN IF repeat_timer <= params.repeat_delay_ms
            THEN /\ repeat_timer' = repeat_timer + params.repeat_interval_ms
                 /\ out' = <<>>
                 /\ UNCHANGED sent_first_up
            ELSE /\ out' = <<current>>
                 /\ sent_first_up' = TRUE
                 /\ UNCHANGED repeat_timer
       ELSE /\ out' = <<>>
            /\ UNCHANGED <<repeat_timer, sent_first_up>>
    /\ UNCHANGED <<keystate, current, last_sent>>

\* faulty variant: a repeat does not set sent_first_up
OnTimeout_keeps_flag ==
    /\ IF RepeatCandidate
       THEN IF repeat_timer < params.repeat_delay_ms
            THEN /\ repeat_timer' = repeat_timer + params.repeat_interval_ms
                 /\ out' = <<>>
            ELSE /\ out' = <<current>>
                 /\ UNCHANGED repeat_timer
       ELSE /\ out' = <<>>
            /\ UNCHANGED repeat_timer
    /\ UNCHANGED <<keystate, current, last_sent, sent_first_up>>

\* the branch "if not report": the read timed out
OnTimeout ==
    /\ IF RepeatCandidate
       THEN IF repeat_timer < params.repeat_delay_ms
            THEN /\ repeat_timer' = repeat_timer + params.repeat_interval_ms
                 /\ out' = <<>>
                 /\ UNCHANGED sent_first_up
            ELSE /\ out' = <<current>>
                 /\ sent_first_up' = TRUE
                 /\ UNCHANGED repeat_timer
       ELSE /\ out' = <<>>
            /\ UNCHANGED <<repeat_timer, sent_first_up>>
    /\ UNCHANGED <<keystate, current, last_sent>>

\* faulty variant: last_sent takes the new bitmap, not the chord that was sent
FirstUp_remembers_current(cur) ==
    LET up == keystate \ cur # {} /\ ~sent_first_up
        flag == IF up THEN TRUE ELSE sent_first_up
    IN  /\ out' = IF up THEN <<keystate>> ELSE <<>>
        /\ last_sent' = IF up THEN cur ELSE last_sent
        /\ sent_first_up' = IF cur \ keystate # {} THEN FALSE ELSE flag
        /\ keystate' = cur

\* faulty variant: the chord sent is the new bitmap, not the old keystate
FirstUp_sends_current(cur) ==
    LET up == keystate \ cur # {} /\ ~sent_first_up
        flag == IF up THEN TRUE ELSE sent_first_up
    IN  /\ out' = IF up THEN <<cur>> ELSE <<>>
        /\ last_sent' = IF up THEN cur ELSE last_sent
        /\ sent_first_up' = IF cur \ keystate # {} THEN FALSE ELSE flag
        /\ keystate' = cur

\* faulty variant: keystate |= current in the first-up branch too
FirstUp_accumulates(cur) ==
    LET up == keystate \ cur # {} /\ ~sent_first_up
        flag == IF up THEN TRUE ELSE sent_first_up
    IN  /\ out' = IF up THEN <<keystate>> ELSE <<>>
        /\ last_sent' = IF up THEN keystate ELSE last_sent
        /\ sent_first_up' = IF cur \ keystate # {} THEN FALSE ELSE flag
        /\ keystate' = keystate \cup cur

\* faulty variant: a release sends whether or not sent_first_up is set
FirstUp_unguarded(cur) ==
    LET up == keystate \ cur # {}
        flag == IF up THEN TRUE ELSE sent_first_up
    IN  /\ out' = IF up THEN <<keystate>> ELSE <<>>
        /\ last_sent' = IF up THEN keystate ELSE last_sent
        /\ sent_first_up' = IF cur \ keystate # {} THEN FALSE ELSE flag
        /\ keystate' = cur

\* faulty variant: a key going down does not clear sent_first_up
FirstUp_no_rearm(cur) ==
    LET up == keystate \ cur # {} /\ ~sent_first_up
        flag == IF up THEN TRUE ELSE sent_first_up
    IN  /\ out' = IF up THEN <<keystate>> ELSE <<>>
        /\ last_sent' = IF up THEN keystate ELSE last_sent
        /\ sent_first_up' = flag
        /\ keystate' = cur

\* the branch "if first_up_chord_send" for the bitmap cur just parsed
FirstUp(cur) ==
    LET up == keystate \ cur # {} /\ ~sent_first_up
        flag == IF up THEN TRUE ELSE sent_first_up
    IN  /\ out' = IF up THEN <<keystate>> ELSE <<>>
        /\ last_sent' = IF up THEN keystate ELSE last_sent
        /\ sent_first_up' = IF cur \ keystate # {} THEN FALSE ELSE flag
        /\ keystate' = cur

\* faulty variant: the release after a repeat sends nothing, as in the
\* first-up branch
Accumulate_skips_after_repeat(cur) ==
    LET total == keystate \cup cur
    IN  /\ IF cur = {}
           THEN /\ out' = IF sent_first_up THEN <<>> ELSE <<total>>
                /\ last_sent' = IF sent_first_up THEN last_sent ELSE total
                /\ keystate' = {}
           ELSE /\ out' = <<>>
                /\ keystate' = total
                /\ UNCHANGED last_sent
        /\ UNCHANGED sent_first_up

\* faulty variant: keystate = current instead of keystate |= current
Accumulate_assigns(cur) ==
    LET total == cur
    IN  /\ IF cur = {}
           THEN /\ out' = <<total>>
                /\ last_sent' = total
                /\ keystate' = {}
           ELSE /\ out' = <<>>
                /\ keystate' = total
                /\ UNCHANGED last_sent
        /\ UNCHANGED sent_first_up

\* faulty variant: keystate is not reset after the chord is sent
Accumulate_no_reset(cur) ==
    LET total == keystate \cup cur
    IN  /\ IF cur = {}
           THEN /\ out' = <<total>>
                /\ last_sent' = total
                /\ keystate' = total
           ELSE /\ out' = <<>>
                /\ keystate' = total
                /\ UNCHANGED last_sent
        /\ UNCHANGED sent_first_up

\* faulty variant: the chord is sent when keys are down, not when all are up
Accumulate_sends_down(cur) ==
    LET total == keystate \cup cur
    IN  /\ IF cur # {}
           THEN /\ out' = <<total>>
                /\ last_sent' = total
                /\ keystate' = {}
           ELSE /\ out' = <<>>
                /\ keystate' = total
                /\ UNCHANGED last_sent
        /\ UNCHANGED sent_first_up

\* the else branch for the bitmap cur just parsed: accumulate until all
\* keys are up
Accumulate(cur) ==
    LET total == keystate \cup cur
    IN  /\ IF cur = {}
           THEN /\ out' = <<total>>
                /\ last_sent' = total
                /\ keystate' = {}
           ELSE /\ out' = <<>>
                /\ keystate' = total
                /\ UNCHANGED last_sent
        /\ UNCHANGED sent_first_up

\* faulty variant: the timer reset of line 125 is missing
OnReport_keeps_timer(cur) ==
    /\ current' = cur
    /\ UNCHANGED repeat_timer
    /\ IF params.first_up_chord_send THEN FirstUp(cur) ELSE Accumulate(cur)

\* lines 121 to 142: a report that _parse accepted
OnReport(cur) ==
    /\ current' = cur
    /\ repeat_timer' = 0
    /\ IF params.first_up_chord_send THEN FirstUp(cur) ELSE Accumulate(cur)

\* faulty variant: the timer reset of line 125 is reached after a rejected
\* report
OnInvalid_resets_timer ==
    /\ out' = <<>>
    /\ repeat_timer' = 0
    /\ UNCHANGED <<keystate, current, last_sent, sent_first_up>>

\* lines 122 and 123: a report that _parse rejected
OnInvalid ==
    /\ out' = <<>>
    /\ UNCHANGED machine

Range(q) == {q[i] : i \in 1..Len(q)}

\* a chord that was sent is held down: the state a repeat is counted from
Held == params.double_tap_repeat /\ current # {} /\ current = last_sent

\* bookkeeping of the observation variables, from the read and from what the
\* iteration sent
Observe(rep) ==
    LET ev == Event(rep)
        pressed == ev.keys \ keystate
        released == keystate \ ev.keys
    IN  /\ Record(rep, out')
        /\ idle' = IF ev.kind = "report" THEN 0
                   ELSE IF ev.kind = "timeout" /\ Held THEN idle + 1
                   ELSE idle
        /\ down' = IF ev.kind # "report" \/ params.first_up_chord_send THEN down
                   ELSE IF ev.keys = {} THEN {}
                   ELSE down \cup ev.keys
        /\ cleared' = IF ev.kind # "report" \/ ~params.first_up_chord_send THEN cleared
                      ELSE IF pressed # {} THEN FALSE
                      ELSE cleared \/ released # {}
        /\ fired' = IF ev.kind # "report" \/ ~params.first_up_chord_send THEN fired
                    ELSE IF pressed # {} THEN 0
                    ELSE IF out' # <<>> /\ fired < 2 THEN fired + 1 ELSE fired
        /\ repeated' = IF ~params.first_up_chord_send THEN repeated
                       ELSE IF ev.kind = "timeout" THEN repeated \/ out' # <<>>
                       ELSE IF ev.kind = "report" /\ pressed # {} THEN FALSE
                       ELSE repeated
        /\ repeating' = IF ev.kind = "timeout" THEN repeating \/ out' # <<>>
                        ELSE repeating
        /\ unsent' = IF ~params.first_up_chord_send THEN unsent
                     ELSE IF ev.kind = "report"
                     THEN (unsent \ UNION Range(out')) \cup pressed
                     ELSE unsent \ UNION Range(out')
        /\ last_emitted' = IF out' # <<>> THEN <<out'[Len(out')]>>
                           ELSE last_emitted

\* one iteration of the loop of run after the stop flag was found clear:
\* the read returned rep
Read(rep) ==
    /\ pc = "read"
    /\ rep = <<>> => idle < MaxIdle
    /\ report' = rep
    /\ IF rep = <<>> THEN OnTimeout
       ELSE IF Parsed[rep].raised THEN OnInvalid
       ELSE OnReport(Parsed[rep].value)
    /\ Sends
    /\ Observe(rep)
    /\ pc' = "check"
    /\ UNCHANGED <<params, parsed, finished, stopped_in, errors>>

ReadStep == \E rep \in Reads : Read(rep)

Next == CheckFinished \/ StopCapture \/ ReadError \/ ReadStep

Spec == Init /\ [][Next]_vars

-----------------------------------------------------------------------------
(* HidMachine._parse alone: one call on one report *)

\* bytes of the reports given to _parse: the report id, zero and all ones
ParseBytes == {0, REPORT_ID, 255}

RECURSIVE SeqsUpTo(_, _)
SeqsUpTo(S, n) ==
    IF n = 0 THEN {<<>>}
    ELSE LET shorter == SeqsUpTo(S, n - 1)
         IN  shorter \cup {Append(q, x) : q \in {r \in shorter : Len(r) = n - 1}, x \in S}

ParseInputs == SeqsUpTo(ParseBytes, MaxReportLen)

InitParse ==
    /\ params = Options(FALSE, FALSE, Defaults)
    /\ keystate = {}
    /\ current = {}
    /\ last_sent = {}
    /\ repeat_timer = 0
    /\ sent_first_up = FALSE
    /\ report \in ParseInputs
    /\ parsed = InvalidReport
    /\ pc = "parse"
    /\ finished = FALSE
    /\ stopped_in = ""
    /\ errors = 0
    /\ out = <<>>
    /\ keys_arg = <<>>
    /\ translated = <<>>
    /\ notified = <<>>
    /\ tracked = FALSE
    /\ history = <<>>
    /\ emitted = <<>>
    /\ idle = 0
    /\ down = {}
    /\ cleared = FALSE
    /\ fired = 0
    /\ repeated = FALSE
    /\ repeating = FALSE
    /\ unsent = {}
    /\ last_emitted = <<>>

ParseCall ==
    /\ pc = "parse"
    /\ parsed' = _parse(report)
    /\ pc' = "parsed"
    /\ UNCHANGED <<params, machine, report, finished, stopped_in, errors, out, sink,
                   tracked, history, emitted, idle, down, cleared, fired,
                   repeated, repeating, unsent, last_emitted>>

NextParse == ParseCall

SpecParse == InitParse /\ [][NextParse]_vars

-----------------------------------------------------------------------------
(* send alone: one call for each bitmap of SendInputs *)

InitSend ==
    /\ params = Options(FALSE, FALSE, Defaults)
    /\ keystate \in SendInputs
    /\ current = {}
    /\ last_sent = {}
    /\ repeat_timer = 0
    /\ sent_first_up = FALSE
    /\ report = <<>>
    /\ parsed = InvalidReport
    /\ pc = "send"
    /\ finished = FALSE
    /\ stopped_in = ""
    /\ errors = 0
    /\ out = <<>>
    /\ keys_arg = <<>>
    /\ translated = <<>>
    /\ notified = <<>>
    /\ tracked = FALSE
    /\ history = <<>>
    /\ emitted = <<>>
    /\ idle = 0
    /\ down = {}
    /\ cleared = FALSE
    /\ fired = 0
    /\ repeated = FALSE
    /\ repeating = FALSE
    /\ unsent = {}
    /\ last_emitted = <<>>

\* self.send(keystate)
SendCall ==
    /\ pc = "send"
    /\ out' = <<keystate>>
    /\ send(keystate)
    /\ pc' = "sent"
    /\ UNCHANGED <<params, machine, report, parsed, finished, stopped_in,
                   errors, tracked, history, emitted, idle, down, cleared,
                   fired, repeated, repeating, unsent,
                   last_emitted>>

NextSend == SendCall

SpecSend == InitSend /\ [][NextSend]_vars

-----------------------------------------------------------------------------
(* Claims about _parse *)

\* bit k of byte b, counted from the least significant bit
BitOfByte(b, k) == (b \div (2 ^ k)) % 2 = 1

\* the payload byte (1..8, after the report id) that holds bit position p of
\* a 64-bit big-endian value, as a 1-based index into the report
ByteIndexOf(p) == 1 + (8 - p \div 8)

\* C1: _parse raises InvalidReport exactly when the report has at most 8
\* bytes or its first byte is not 0x50; otherwise it returns the 64-bit
\* value of bytes 1..8 read big-endian, whatever follows byte 8, and the
\* state of the machine is as it was.
C1_ParseContract ==
    pc = "parsed" =>
        /\ parsed.raised <=> (Len(report) <= 8 \/ report[1] # 80)
        /\ ~parsed.raised =>
              /\ parsed.value \subseteq 0..63
              /\ \A p \in 0..63 :
                    p \in parsed.value <=> BitOfByte(report[ByteIndexOf(p)], p % 8)
        /\ machine = <<{}, {}, {}, 0, FALSE>>

\* C1 witness: a 10-byte report was accepted, its last payload byte set and a
\* byte following it
C1_Witness ==
    /\ pc = "parsed"
    /\ report = <<80, 0, 0, 0, 0, 0, 0, 0, 255, 255>>
    /\ parsed = Returned(0..7)

\* C2 as stated: for the report [0x50, 0xFF, 0, 0, 0, 0, 0, 0, 0] the bitmap
\* has only layout index 0 (bit position 63) set.
C2_OnlyIndex0 ==
    (pc = "parsed" /\ report = <<80, 255, 0, 0, 0, 0, 0, 0, 0>>) =>
        (~parsed.raised /\ parsed.value = {63})

\* C2 amended: for the report [0x50, 0xFF, 0, 0, 0, 0, 0, 0, 0] the bitmap
\* has exactly the layout indices 0..7 (bit positions 63..56) set.
C2_Indices0To7 ==
    (pc = "parsed" /\ report = <<80, 255, 0, 0, 0, 0, 0, 0, 0>>) =>
        (~parsed.raised /\ parsed.value = {63 - i : i \in 0..7})

C2_Witness ==
    /\ pc = "parsed"
    /\ report = <<80, 255, 0, 0, 0, 0, 0, 0, 0>>
    /\ ~parsed.raised
    /\ 63 \in parsed.value

-----------------------------------------------------------------------------
(* Claims about the chord state machine of run *)

\* one iteration of the loop whose read timed out
IterTimeout == pc = "read" /\ pc' = "check" /\ report' = <<>>

\* one iteration of the loop whose read returned a well-formed report
IterValid ==
    /\ pc = "read" /\ pc' = "check"
    /\ Len(report') > 8 /\ report'[1] = 80

\* the bitmap a well-formed report carries, bit by bit
BitmapOf ==
    [rep \in ValidReports |->
        {p \in 0..63 : BitOfByte(rep[ByteIndexOf(p)], p % 8)}]

Last(h) == h[Len(h)]

\* the reports of h after its last bitmap-0 report, the final report of h
\* left aside, OR-ed together
SinceRelease(h) ==
    LET zeros == {i \in 1..(Len(h) - 1) : h[i] = {}}
        from == IF zeros = {} THEN 1
                ELSE 1 + CHOOSE i \in zeros : \A j \in zeros : j <= i
    IN  UNION {h[i] : i \in from..(Len(h) - 1)}

\* the keys of layout index 0, 1 and 2
Bit0 == LayoutBit(0)
Bit1 == LayoutBit(1)
Bit2 == LayoutBit(2)

\* C3: under the accumulate policy the chord sent at a valid report with
\* bitmap 0 is the OR of all valid report bitmaps since the previous
\* bitmap-0 report (or the start of the session).
C3_AccumulatedChord ==
    /\ [](( /\ tracked /\ ~params.first_up_chord_send /\ pc = "check"
            /\ history # <<>> /\ Last(history) = {} )
          => out = <<SinceRelease(history)>>)
    /\ [][( /\ ~params.first_up_chord_send /\ IterValid
            /\ BitmapOf[report'] = {} )
          => out' = <<down>>]_vars

\* C3 witness: {bit0}, {bit0,bit1}, 0 sent the one chord {bit0,bit1}
C3_Witness ==
    /\ ~params.first_up_chord_send
    /\ tracked
    /\ history = <<{Bit0}, {Bit0, Bit1}, {}>>
    /\ emitted = <<{Bit0, Bit1}>>
    /\ out = <<{Bit0, Bit1}>>

\* C4: under the accumulate policy the valid reports A, 0, B, 0 (A and B not
\* 0) from a fresh session send exactly two chords, A and then B, and
\* keystate is 0 again after each.
C4_TwoChords ==
    ( /\ tracked /\ ~params.first_up_chord_send
      /\ Len(history) >= 2 /\ history[1] # {} /\ history[2] = {} )
    => /\ Len(history) = 2 => (emitted = <<history[1]>> /\ keystate = {})
       /\ (Len(history) = 3 /\ history[3] # {}) => emitted = <<history[1]>>
       /\ (Len(history) = 4 /\ history[3] # {} /\ history[4] = {})
             => (emitted = <<history[1], history[3]>> /\ keystate = {})

\* C4 witness: {bit0,bit1}, 0, {bit1,bit2}, 0 sent the two chords
C4_Witness ==
    /\ ~params.first_up_chord_send
    /\ tracked
    /\ history = <<{Bit0, Bit1}, {}, {Bit1, Bit2}, {}>>
    /\ emitted = <<{Bit0, Bit1}, {Bit1, Bit2}>>

\* C5 as stated: under the accumulate policy, repeat or not, a chord is only
\* sent by an iteration that leaves all keys up.
C5_OnlyWhenAllUp ==
    (~params.first_up_chord_send /\ out # <<>>) => current = {}

\* C5 amended: under the accumulate policy a chord is sent while a key is
\* down only by a timeout with double_tap_repeat on (a repeat); every other
\* chord is sent by an iteration that leaves all keys up.
C5_AllUpOrRepeat ==
    (~params.first_up_chord_send /\ out # <<>>) =>
        \/ current = {}
        \/ (params.double_tap_repeat /\ pc = "check" /\ report = <<>>)

\* C5 witness: a chord of two keys sent on the full release, with repeat on
C5_Witness ==
    /\ ~params.first_up_chord_send
    /\ params.double_tap_repeat
    /\ pc = "check"
    /\ current = {}
    /\ out = <<{Bit0, Bit1}>>

\* the keys a well-formed report presses and releases, against keystate
PressedBy(rep) == BitmapOf[rep] \ keystate
ReleasedBy(rep) == keystate \ BitmapOf[rep]

\* C6: under the first-up policy, in a run of valid reports that press no
\* new key at most one chord is sent by a report: by the first report of the
\* run that clears a key of keystate, and it is keystate as it was before
\* that report; after it no timeout sends anything until a key is pressed.
C6_OncePerRelease ==
    /\ [](params.first_up_chord_send => fired <= 1)
    /\ [][( /\ params.first_up_chord_send /\ IterValid
            /\ PressedBy(report') = {} /\ out' # <<>> )
          => ( /\ ~cleared
               /\ ReleasedBy(report') # {}
               /\ out' = <<keystate>> )]_vars
    /\ [][(params.first_up_chord_send /\ IterTimeout /\ fired >= 1)
          => out' = <<>>]_vars

\* C6 witness: {bit0,bit1} was sent when bit0 went up, and a timeout with
\* repeat on has just sent nothing
C6_Witness ==
    /\ params.first_up_chord_send
    /\ params.double_tap_repeat
    /\ pc = "check"
    /\ report = <<>>
    /\ fired = 1
    /\ last_sent = {Bit0, Bit1}
    /\ current = {Bit1}
    /\ out = <<>>

\* C7 as stated: under the first-up policy a valid report that presses a key
\* clears sent_first_up, the next valid report that releases a key sends
\* keystate as it was before it, and a report that both releases and presses
\* sends the old keystate and leaves sent_first_up false.
C7_RearmAsStated ==
    [][(params.first_up_chord_send /\ IterValid) =>
        /\ PressedBy(report') # {} => ~sent_first_up'
        /\ (ReleasedBy(report') # {} /\ ~cleared) => out' = <<keystate>>
        /\ (ReleasedBy(report') # {} /\ PressedBy(report') # {})
              => out' = <<keystate>>]_vars

\* C7 amended: under the first-up policy a valid report that presses a key
\* clears sent_first_up; a valid report that releases a key (whether or not
\* it also presses one) sends keystate as it was before it exactly when,
\* since the last valid report that pressed a key, no valid report released a
\* key and no timeout sent a repeat; a report that releases no key sends
\* nothing.
C7_Rearm ==
    [][(params.first_up_chord_send /\ IterValid) =>
        /\ PressedBy(report') # {} => ~sent_first_up'
        /\ ReleasedBy(report') # {} =>
              out' = IF ~cleared /\ ~repeated THEN <<keystate>> ELSE <<>>
        /\ ReleasedBy(report') = {} => out' = <<>>]_vars

\* C7 witness: {bit0,bit1}, {bit1}, {bit1,bit2}, {bit2} sent {bit0,bit1} and
\* then {bit1,bit2}
C7_Witness ==
    /\ params.first_up_chord_send
    /\ tracked
    /\ history = <<{Bit0, Bit1}, {Bit1}, {Bit1, Bit2}, {Bit2}>>
    /\ emitted = <<{Bit0, Bit1}, {Bit1, Bit2}>>
    /\ sent_first_up

\* a chord that was sent is held down with repeat on, and the read timed out
IterHeldTimeout ==
    /\ IterTimeout
    /\ params.double_tap_repeat
    /\ current # {}
    /\ current = last_sent

\* C8 as stated: from repeat_timer = 0 with the sent chord held, each timeout
\* adds repeat_interval_ms to repeat_timer and then sends the chord if
\* repeat_timer >= repeat_delay_ms: the first repeat is on the n-th timeout,
\* n the least with n * repeat_interval_ms >= repeat_delay_ms.
C8_RepeatAsStated ==
    [][IterHeldTimeout =>
        /\ repeat_timer' = repeat_timer + params.repeat_interval_ms
        /\ out' = IF (idle + 1) * params.repeat_interval_ms >= params.repeat_delay_ms
                  THEN <<current>> ELSE <<>>]_vars

\* C8 amended: from repeat_timer = 0 with the sent chord held, a timeout that
\* finds repeat_timer < repeat_delay_ms adds repeat_interval_ms to it and
\* sends nothing, and any other timeout sends the chord and leaves
\* repeat_timer alone: the first repeat is on timeout n + 1, n the least with
\* n * repeat_interval_ms >= repeat_delay_ms, and every later timeout repeats.
C8_Repeat ==
    [][IterHeldTimeout =>
        /\ repeat_timer' = IF repeat_timer < params.repeat_delay_ms
                           THEN repeat_timer + params.repeat_interval_ms
                           ELSE repeat_timer
        /\ out' = IF idle * params.repeat_interval_ms >= params.repeat_delay_ms
                  THEN <<current>> ELSE <<>>]_vars

\* C8 witness: delay 100, interval 50, the third timeout sent the first repeat
C8_Witness ==
    /\ params.double_tap_repeat
    /\ params.repeat_delay_ms = 100
    /\ params.repeat_interval_ms = 50
    /\ pc = "check"
    /\ report = <<>>
    /\ idle = 3
    /\ current = last_sent
    /\ out = <<current>>

\* C9: a timeout leaves keystate, current and last_sent alone; unless
\* double_tap_repeat is on and current = last_sent # 0 it also leaves
\* repeat_timer and sent_first_up alone and sends nothing; what a timeout
\* sends is the chord of current.
C9_TimeoutFrame ==
    [][IterTimeout =>
        /\ keystate' = keystate
        /\ current' = current
        /\ last_sent' = last_sent
        /\ ~(params.double_tap_repeat /\ current = last_sent /\ current # {})
              => ( /\ repeat_timer' = repeat_timer
                   /\ sent_first_up' = sent_first_up
                   /\ out' = <<>> )
        /\ out' # <<>> => out' = <<current>>]_vars

\* C9 witness: repeat off, the chord sent last is held down, the read timed out
C9_Witness ==
    /\ ~params.double_tap_repeat
    /\ pc = "check"
    /\ report = <<>>
    /\ current = {Bit0, Bit1}
    /\ last_sent = current
    /\ out = <<>>

\* C10: under the first-up policy with repeat on, once a timeout has sent a
\* repeat, the valid reports that press no key (the release of the chord, down
\* to bitmap 0) send nothing.
C10_NoFirstUpAfterRepeat ==
    [][( /\ params.first_up_chord_send /\ params.double_tap_repeat
         /\ IterValid /\ repeated /\ PressedBy(report') = {} )
       => out' = <<>>]_vars

\* C10 witness: a chord of two keys was repeated and then released in full
C10_Witness ==
    /\ params.first_up_chord_send
    /\ params.double_tap_repeat
    /\ repeated
    /\ pc = "check"
    /\ report = <<80, 0, 0, 0, 0, 0, 0, 0, 0>>
    /\ last_sent = {Bit0, Bit1}
    /\ current = {}
    /\ cleared
    /\ out = <<>>

\* one iteration of the loop whose read returned a report that _parse rejects
IterInvalid ==
    /\ pc = "read" /\ pc' = "check"
    /\ report' # <<>>
    /\ ~(Len(report') > 8 /\ report'[1] = 80)

\* C11: an iteration whose non-empty report the decoder rejects leaves
\* keystate, current, last_sent, repeat_timer and sent_first_up as they were,
\* passes nothing to send() or to the notify sink, and signals no error; the
\* loop goes on with the next iteration.  The machine after the report is the
\* machine before it, so the chords sent afterwards are those of the same
\* events without the report.
C11_InvalidIsSkipped ==
    [][IterInvalid =>
          /\ machine' = machine
          /\ out' = <<>>
          /\ notified' = <<>>
          /\ errors' = errors
          /\ pc' = "check"]_vars

\* a rejected report was read while a chord was held and the timer ran
C11_Witness ==
    /\ pc = "check"
    /\ report \in BadReports
    /\ current # {}
    /\ repeat_timer > 0
    /\ out = <<>>
    /\ errors = 0

\* C12: a read that raises a device error ends the session.  The error is
\* signalled once, from a read, by a step that changes no machine variable
\* and sends nothing, and the worker is then finished: no step of the worker
\* (no read, no retry, no machine step, no send) starts in a state where the
\* error has been signalled.
C12_ReadErrorIsFatal ==
    /\ [](errors <= 1)
    /\ [](errors = 1 => pc = "done")
    /\ [][errors = 0]_vars
    /\ [][errors' # errors =>
             /\ pc = "read"
             /\ errors' = errors + 1
             /\ pc' = "done"
             /\ machine' = machine
             /\ out' = <<>>
             /\ notified' = <<>>]_vars

\* the read failed while a chord was held, before any stop was requested
C12_Witness ==
    /\ errors = 1
    /\ pc = "done"
    /\ ~finished
    /\ current # {}

\* C13: the stop flag is looked at once per iteration, before the read.  A
\* read starts only from a check that found the flag clear; a check that
\* finds it set ends the worker without a read, a machine step or a send, and
\* nothing happens after the end.  The flag stays set, so when it is set
\* during a read, that read is the last: its result is processed as any
\* other and the next check ends the worker.
C13_StopFlag ==
    /\ [][(pc' = "read" /\ pc # "read") => (pc = "check" /\ ~finished)]_vars
    /\ [][(pc = "check" /\ finished) =>
             /\ pc' = "done"
             /\ machine' = machine
             /\ out' = <<>>
             /\ notified' = <<>>
             /\ errors' = errors]_vars
    /\ [][pc # "done"]_vars
    /\ [][finished => finished']_vars
    /\ [][(pc = "read" /\ finished) => pc' \in {"check", "done"}]_vars
    /\ [](finished => stopped_in \in {"check", "read"})
    /\ []((finished /\ pc = "read") => stopped_in = "read")

\* the flag was set during a read; the read then returned a report that
\* released the held keys, and the chord was sent and forwarded
C13_Witness ==
    /\ finished
    /\ stopped_in = "read"
    /\ pc = "check"
    /\ Event(report).kind = "report"
    /\ out # <<>>
    /\ notified # <<>>

\* C14: the notify sink receives something only when the translator returned
\* a non-empty result for the key list of the chord, and then exactly that
\* result.  When the translator returns nothing, as for the empty key list of
\* an accumulate-policy report of bitmap 0 with nothing accumulated, nothing
\* is forwarded and no error is signalled.
C14_NotifyOnlyTranslated ==
    /\ Len(out) <= 1
    /\ Len(keys_arg) = Len(out)
    /\ Len(translated) = Len(out)
    /\ out # <<>> =>
          /\ keys_arg[1] = SendKeys(out[1])
          /\ translated[1] \in keys_to_actions(keys_arg[1])
          /\ notified = IF translated[1] # <<>> THEN <<translated[1]>> ELSE <<>>
          /\ (out[1] = {} => notified = <<>>)
          /\ (pc = "check" => errors = 0)
    /\ out = <<>> => notified = <<>>

\* accumulate policy: a report of bitmap 0 with nothing accumulated calls
\* send with the empty chord; the translator gets no keys and returns nothing
C14_Witness ==
    /\ ~params.first_up_chord_send
    /\ pc = "check"
    /\ report \in ValidReports
    /\ BitmapOf[report] = {}
    /\ out = <<{}>>
    /\ keys_arg = <<<<>>>>
    /\ translated = <<<<>>>>
    /\ notified = <<>>
    /\ errors = 0

\* the layout index of a key name
IndexOf(key) == CHOOSE i \in 0..63 : STENO_KEY_CHART[i + 1] = key

\* C15: for every bitmap, the key list send() passes to the translator holds
\* the layout key of index i exactly when bit 63 - i of the bitmap is set,
\* for each of the 64 indices (index 0 is the most significant bit); the
\* keys come in layout order, none twice, and the layout names 64 distinct
\* keys.
C15_KeysOfBitmap ==
    /\ Len(STENO_KEY_CHART) = 64
    /\ \A i, j \in 1..64 : STENO_KEY_CHART[i] = STENO_KEY_CHART[j] => i = j
    /\ pc = "sent" =>
          LET keys == keys_arg[1]
          IN  /\ \A i \in 0..63 :
                    (\E k \in 1..Len(keys) : keys[k] = STENO_KEY_CHART[i + 1])
                        <=> (63 - i) \in keystate
              /\ \A k \in 1..(Len(keys) - 1) :
                    IndexOf(keys[k]) < IndexOf(keys[k + 1])
              /\ \A k \in 1..Len(keys) :
                    \E i \in 0..63 : keys[k] = STENO_KEY_CHART[i + 1]

\* the most and the least significant bit give the first and the last key of
\* the layout, in that order
C15_Witness ==
    /\ pc = "sent"
    /\ keystate = {63, 0}
    /\ keys_arg = <<<<"S-", "X41">>>>

\* C16: in every reachable state, under both policies and with or without
\* repeat, last_sent is the chord of the latest call of send() in the
\* session, and 0 while there was none; this holds after a timeout repeat and
\* when the translator returned nothing for the chord.
C16_LastSentIsLastEmitted ==
    /\ last_sent = IF last_emitted = <<>> THEN {} ELSE last_emitted[1]
    /\ out # <<>> => last_emitted = <<out[1]>>

\* a timeout repeated the held chord and the translator returned nothing
C16_Witness ==
    /\ pc = "check"
    /\ report = <<>>
    /\ current # {}
    /\ out = <<current>>
    /\ translated = <<<<>>>>
    /\ notified = <<>>
    /\ last_emitted = <<current>>
    /\ last_sent = current

\* C17: every valid report, whatever its bitmap, sets current to the bitmap
\* and repeat_timer to 0, so the timeout that comes next (idle is 0 then)
\* sends no repeat.  Conversely, once a timeout has sent a repeat, each
\* timeout that follows before the next valid report sends the same chord
\* again, once.
C17_ReportResetsRepeat ==
    /\ [][IterValid =>
             /\ current' = BitmapOf[report']
             /\ repeat_timer' = 0
             /\ idle' = 0]_vars
    /\ [][(IterTimeout /\ idle = 0) => (out' = <<>> /\ notified' = <<>>)]_vars
    /\ [][(IterTimeout /\ repeating) =>
             /\ out' = <<current>>
             /\ last_emitted = <<current>>
             /\ machine' = machine]_vars

\* while a chord was being repeated, a report with the very same bitmap came
\* in: the timer is back at 0 and the report sent nothing
C17_Witness ==
    /\ pc = "check"
    /\ report \in ValidReports
    /\ repeating
    /\ BitmapOf[report] = last_sent
    /\ current = last_sent
    /\ current # {}
    /\ out = <<>>
    /\ repeat_timer = 0

\* the second repeat in a row: with a delay of 100 ms and an interval of
\* 50 ms the third idle timeout repeats the chord, and so does the fourth
C17_RepeatGoesOn ==
    /\ pc = "check"
    /\ report = <<>>
    /\ params.repeat_delay_ms = 100
    /\ idle = 4
    /\ repeating
    /\ out = <<current>>

\* C18: in every state from the start of the session on, that is after every
\* valid report, rejected report and timeout: under the first-up policy
\* keystate equals current; under the accumulate policy every key of current
\* is in keystate, and keystate is 0 whenever current is 0.
C18_KeystateAndCurrent ==
    /\ params.first_up_chord_send => keystate = current
    /\ ~params.first_up_chord_send =>
          /\ current \ keystate = {}
          /\ current = {} => keystate = {}

\* accumulate policy: one of two keys was released, keystate still holds both
C18_Witness ==
    /\ ~params.first_up_chord_send
    /\ pc = "check"
    /\ report \in ValidReports
    /\ current = {Bit1}
    /\ keystate = {Bit0, Bit1}

C20_NoKeyLost ==
    /\ [][(/\ params.first_up_chord_send
           /\ pc = "read" /\ pc' = "check"
           /\ out' # <<>>) => (Len(out') = 1 /\ out'[1] # {})]_vars
    /\ [][(/\ params.first_up_chord_send
           /\ IterValid
           /\ ReleasedBy(report') # {}) =>
                /\ unsent \ UNION Range(out') = {}
                /\ unsent' = PressedBy(report')]_vars
    /\ [](params.first_up_chord_send => unsent \ keystate = {})

\* two keys pressed one after the other, then the first released: the chord
\* sent by the release holds both
C20_Witness ==
    /\ params.first_up_chord_send
    /\ pc = "check"
    /\ tracked
    /\ history = <<{Bit0}, {Bit0, Bit1}, {Bit1}>>
    /\ emitted = <<{Bit0, Bit1}>>
    /\ out = <<{Bit0, Bit1}>>
    /\ unsent = {}

\* a key pressed again after its tap was repeated by a timeout, then
\* released: the release sends nothing and no key is left unsent
C20_RepeatCoversRelease ==
    /\ params.first_up_chord_send
    /\ pc = "check"
    /\ report \in ValidReports
    /\ BitmapOf[report] = {}
    /\ repeating
    /\ out = <<>>
    /\ unsent = {}

=============================================================================
